---- MODULE Spec2Model ----
(***************************************************************************)
(* The heat-plate controller of src/ws_hat_controller.py: the relay-owning *)
(* HeatingController, the three key handlers, and the main loop with its   *)
(* per-frame button dispatch and its slow-cadence sense / telemetry /      *)
(* thermostat step, up to process exit.                                    *)
(*                                                                         *)
(* Units.  Temperatures the sensor yields are integers in hundredths of a  *)
(* degree; calibrated temperatures and the mode limits are integers in     *)
(* tenths of a degree (the code rounds the calibrated value to one         *)
(* decimal, and every limit has one decimal).  The clock is in whole       *)
(* seconds.  A Python value that may be None is a sequence of length at    *)
(* most one: <<>> is None, <<v>> is the value v.                           *)
(***************************************************************************)
EXTENDS Integers, Sequences, FiniteSets, TLC

VARIABLES
    pc,                    \* position of the process in the script
    exit_cause,            \* what ended the loop: "none" while it runs
    now,                   \* time.time()
    LAST_POLL_TIME,        \* module global, lines 530 and 559
    button_states,         \* local of the loop, line 535
    current_heating_mode,  \* local of the loop, line 554
    power_status,          \* local of the loop, line 562 (<<>>: not yet bound)
    latest_measurement,    \* local of the loop, line 561 (<<>>: not yet bound)
    temperature_records,   \* Canvas.temperature_records
    mqtt_calls,            \* number of publish.single calls issued so far
    mqtt_last,             \* the last publish.single call (<<>>: none yet)
    _calibration,          \* TemperatureGetter._calibration
    _instance,             \* HeatingController._instance (<<>>: None, <<k>>:
                           \* the k-th controller constructed)
    _current_mode,         \* HeatingController._current_mode
    _power_status,         \* HeatingController._power_status
    relay_pin,             \* direction of the relay GPIO pin
    relay_call,            \* the last GPIO call made on the relay pin
    should_push,           \* CONFIG.mqtt.should_push
    LCD_BRIGHTNESS,        \* DisplayConfig.LCD_BRIGHTNESS
    _previous_brightness,  \* DisplayConfig._previous_brightness
    backlight,             \* duty cycle last passed to disp.bl_DutyCycle
    bl_updated,            \* whether the last finished frame called bl_DutyCycle
    direct_call,           \* the last direct change_to_mode call (<<>>: none yet)
    results                \* local of get_readout, line 163: what the last
                           \* Temper.read() returned (<<>>: not called yet)

vars == <<pc, exit_cause, now, LAST_POLL_TIME, button_states,
          current_heating_mode, power_status, latest_measurement,
          temperature_records, mqtt_calls, mqtt_last, _calibration,
          _instance, _current_mode, _power_status, relay_pin, relay_call, should_push,
          LCD_BRIGHTNESS, _previous_brightness, backlight, bl_updated, direct_call,
          results>>

----------------------------------------------------------------------------
(* Program constants *)

TEMPERATURE_POLL_FREQUENCY_SECONDS == 10

AbsentSleepSeconds == 5

HistoryMaxLen == 100

LCD_BRIGHTNESS_LEVELS == <<0, 10, 70>>

AVAILABLE_MODES ==
    << [NAME |-> "natto", lower_limit |-> 398, upper_limit |-> 405,
        display_name |-> "natto"],
       [NAME |-> "greek yogurt", lower_limit |-> 420, upper_limit |-> 430,
        display_name |-> "greek"],
       [NAME |-> "free", lower_limit |-> 0, upper_limit |-> 1000,
        display_name |-> "free"] >>

\* a configuration that lists KEY3 before KEY2
BUTTON_CONFIG_KEY3_first ==
    << [name |-> "UP",     handler |-> "none"],
       [name |-> "DOWN",   handler |-> "none"],
       [name |-> "LEFT",   handler |-> "none"],
       [name |-> "RIGHT",  handler |-> "none"],
       [name |-> "CENTER", handler |-> "none"],
       [name |-> "KEY1",   handler |-> "handle_key_1"],
       [name |-> "KEY3",   handler |-> "handle_key_3"],
       [name |-> "KEY2",   handler |-> "handle_key_2"] >>

\* name and handler of each button, in the insertion order of the dict
BUTTON_CONFIG ==
    << [name |-> "UP",     handler |-> "none"],
       [name |-> "DOWN",   handler |-> "none"],
       [name |-> "LEFT",   handler |-> "none"],
       [name |-> "RIGHT",  handler |-> "none"],
       [name |-> "CENTER", handler |-> "none"],
       [name |-> "KEY1",   handler |-> "handle_key_1"],
       [name |-> "KEY2",   handler |-> "handle_key_2"],
       [name |-> "KEY3",   handler |-> "handle_key_3"] >>

\* the mode and the power status of a controller that does not exist yet
NoMode ==
    [NAME |-> "None", lower_limit |-> 0, upper_limit |-> 0,
     display_name |-> "None"]

NoPower == "None"

ButtonNames == {BUTTON_CONFIG[i].name : i \in 1..Len(BUTTON_CONFIG)}

----------------------------------------------------------------------------
(* Bounds and inputs *)

\* the clock is not read beyond this value
MaxTime == 22

\* seconds a frame lasts at least: its end-of-frame sleep and its drawing
FrameSeconds == 1

\* a frame lasts FrameSeconds, or is stalled by a blocking call for longer
\* than one poll interval
FrameDurations == {FrameSeconds, TEMPERATURE_POLL_FREQUENCY_SECONDS + 1}

\* what the sensor's external channel can read, in hundredths of a degree
RawReadings == {-100, 3900, 3984, 4000, 4046, 4100, 4200, 4300, 10100}

\* what Temper.read() can return: no result at all, or a list whose first
\* entry has, or lacks, the external temperature channel
SensorReads ==
    {<<>>} \cup {<<[external_temperature |-> <<>>]>>}
           \cup {<<[external_temperature |-> <<r>>]>> : r \in RawReadings}

\* pin levels of one frame: f[name] is 0 (released) or 1 (pressed)
PinsOf(S) == [n \in ButtonNames |-> IF n \in S THEN 1 ELSE 0]

\* pin levels of the frames: any combination of KEY2 and KEY3, the keys that
\* act on mode, power and the telemetry flag, alone or with a button that has
\* no handler
ControlPins ==
    {PinsOf(S \cup J) : S \in SUBSET {"KEY2", "KEY3"}, J \in {{}, {"UP"}}}

\* calibrations the configuration can yield: none (no calibration points), or
\* the (slope in thousandths, intercept in hundredths) of a fitted line, here
\* the line through the points (3.06, 3.1) and (77.93, 80.9) of the example
\* configuration
Calibrations == {<<>>, << <<1039, -8>> >>}

----------------------------------------------------------------------------
(* Pure helpers *)

IndexOf(seq, x) == CHOOSE i \in 1..Len(seq) : seq[i] = x /\ \A j \in 1..(i-1) : seq[j] # x

\* round(x, 1) on a value given in 1/100000 of a degree: the nearest tenth,
\* a tie going to the even tenth
RoundTenths(v) ==
    LET q == v \div 10000
        r == v % 10000
    IN  IF r > 5000 THEN q + 1
        ELSE IF r < 5000 THEN q
        ELSE IF q % 2 = 0 THEN q ELSE q + 1

\* TemperatureGetter.apply_calibration, result in 1/100000 of a degree
apply_calibration(cal, raw_temp) ==
    IF cal = <<>> THEN raw_temp * 1000
    ELSE raw_temp * cal[1][1] + cal[1][2] * 1000

\* the Measurement built by get_current_measurement from one readout
MeasurementOf(cal, result, t) ==
    LET raw_celsius == result.external_temperature
    IN  [time |-> t,
         raw_celsius |-> raw_celsius,
         calibrated_celsius |->
            IF raw_celsius = <<>> THEN <<>>
            ELSE <<RoundTenths(apply_calibration(cal, raw_celsius[1]))>>]

\* a plain list append, without maxlen
DequeAppendUnbounded(d, x) == Append(d, x)

\* deque(maxlen=HistoryMaxLen).append
DequeAppend(d, x) ==
    IF Len(d) >= HistoryMaxLen THEN Append(Tail(d), x) ELSE Append(d, x)

----------------------------------------------------------------------------
(* HeatingController and the key handlers, as functions of the state they   *)
(* read and write.                                                         *)

World ==
    [_instance |-> _instance, _current_mode |-> _current_mode, _power_status |-> _power_status,
     relay_pin |-> relay_pin, relay_call |-> relay_call,
     should_push |-> should_push, LCD_BRIGHTNESS |-> LCD_BRIGHTNESS,
     _previous_brightness |-> _previous_brightness, raised |-> "none"]

SetWorld(w) ==
    /\ _instance' = w._instance
    /\ _current_mode' = w._current_mode
    /\ _power_status' = w._power_status
    /\ relay_pin' = w.relay_pin
    /\ relay_call' = w.relay_call
    /\ should_push' = w.should_push
    /\ LCD_BRIGHTNESS' = w.LCD_BRIGHTNESS
    /\ _previous_brightness' = w._previous_brightness

\* GPIO.setup(CONFIG.heat_plate_relay_gpio, direction)
GPIO_setup(w, direction) ==
    [w EXCEPT !.relay_pin = direction, !.relay_call = <<"setup", direction>>]

\* GPIO.output(CONFIG.heat_plate_relay_gpio, level)
GPIO_output(w, level) == [w EXCEPT !.relay_call = <<"output", level>>]

\* a turn_off that writes the pin low instead of releasing it
turn_off_drive_low(w) == GPIO_output([w EXCEPT !._power_status = "off"], "LOW")

turn_off(w) == GPIO_setup([w EXCEPT !._power_status = "off"], "IN")

\* a turn_on that records the status and leaves the pin as it is
turn_on_status_only(w) == [w EXCEPT !._power_status = "on"]

turn_on(w) == GPIO_setup([w EXCEPT !._power_status = "on"], "OUT")

\* HeatingController.__init__: the controller constructed after k others
__init__(w, mode, k) ==
    LET matching_modes ==
            SelectSeq(AVAILABLE_MODES, LAMBDA m : m.NAME = mode)
    IN  IF matching_modes = <<>> THEN [w EXCEPT !.raised = "ValueError"]
        ELSE turn_on([w EXCEPT !._instance = <<k + 1>>,
                               !._current_mode = matching_modes[1]])

\* a get_instance that constructs a controller on every call
get_instance_fresh(w) ==
    __init__(w, "free", IF w._instance = <<>> THEN 0 ELSE w._instance[1])

get_instance(w) ==
    IF w._instance = <<>> THEN __init__(w, "free", 0) ELSE w

\* a change_to_mode that ignores a name it does not know
change_to_mode_lenient(w, new_mode) ==
    LET matching_modes ==
            SelectSeq(AVAILABLE_MODES, LAMBDA m : m.NAME = new_mode)
    IN  IF matching_modes = <<>> THEN w
        ELSE [w EXCEPT !._current_mode = matching_modes[1]]

change_to_mode(w, new_mode) ==
    LET matching_modes ==
            SelectSeq(AVAILABLE_MODES, LAMBDA m : m.NAME = new_mode)
    IN  IF matching_modes = <<>> THEN [w EXCEPT !.raised = "ValueError"]
        ELSE [w EXCEPT !._current_mode = matching_modes[1]]

update_brightness(w, new_brightness) ==
    [w EXCEPT !._previous_brightness = w.LCD_BRIGHTNESS,
              !.LCD_BRIGHTNESS = new_brightness]

brightness_changed(w) == w.LCD_BRIGHTNESS # w._previous_brightness

handle_key_1(w) ==
    LET current_brightness_index == IndexOf(LCD_BRIGHTNESS_LEVELS, w.LCD_BRIGHTNESS)
        next_index == (current_brightness_index % Len(LCD_BRIGHTNESS_LEVELS)) + 1
    IN  update_brightness(w, LCD_BRIGHTNESS_LEVELS[next_index])

\* a handle_key_2 that stops at the last mode instead of wrapping
handle_key_2_clamped(w) ==
    LET c == get_instance(w)
        current_mode_index == IndexOf(AVAILABLE_MODES, c._current_mode)
        next_index == IF current_mode_index = Len(AVAILABLE_MODES)
                      THEN current_mode_index ELSE current_mode_index + 1
    IN  change_to_mode(c, AVAILABLE_MODES[next_index].NAME)

handle_key_2(w) ==
    LET c == get_instance(w)
        current_mode_index == IndexOf(AVAILABLE_MODES, c._current_mode)
        next_index == (current_mode_index % Len(AVAILABLE_MODES)) + 1
    IN  change_to_mode(c, AVAILABLE_MODES[next_index].NAME)

\* a handle_key_3 that toggles the power in every mode
handle_key_3_any_mode(w) ==
    LET c == get_instance(w)
    IN  IF c._power_status = "off" THEN turn_on(c) ELSE turn_off(c)

handle_key_3(w) ==
    LET c == get_instance(w)
    IN  IF c._current_mode.NAME = "free"
        THEN IF c._power_status = "off" THEN turn_on(c) ELSE turn_off(c)
        ELSE [c EXCEPT !.should_push = ~c.should_push]

\* a dispatch that calls the handler of a pressed button twice, once for
\* the press and once for the hold
CallHandlerTwice(h, w) ==
    LET once(x) == CASE h = "handle_key_1" -> handle_key_1(x)
                     [] h = "handle_key_2" -> handle_key_2(x)
                     [] h = "handle_key_3" -> handle_key_3(x)
                     [] OTHER -> x
    IN  once(once(w))

CallHandler(h, w) ==
    CASE h = "handle_key_1" -> handle_key_1(w)
      [] h = "handle_key_2" -> handle_key_2(w)
      [] h = "handle_key_3" -> handle_key_3(w)
      [] OTHER -> w

\* poll_buttons: 0 = released, anything else = pressed
poll_buttons(pins) == [n \in ButtonNames |-> pins[n] # 0]

\* the for loop of lines 541-552 from button i on; an exception raised by a
\* handler ends it
RECURSIVE DispatchFrom(_, _, _)
DispatchFrom(w, states, i) ==
    IF i > Len(BUTTON_CONFIG) \/ w.raised # "none" THEN w
    ELSE LET cfg == BUTTON_CONFIG[i]
         IN  DispatchFrom(IF states[cfg.name] THEN CallHandler(cfg.handler, w) ELSE w,
                          states, i + 1)

Dispatch(w, states) == DispatchFrom(w, states, 1)

----------------------------------------------------------------------------
(* Telemetry and thermostat decisions of the slow tick *)

\* lines 578-583
topic_postfix(mode) ==
    IF mode.NAME = "natto" THEN "inside natto bowl"
    ELSE IF mode.NAME = "yogurt" THEN "inside yogurt bowl"
    ELSE mode.NAME

\* line 584: the f-string, kept as its two parts
Topic(mode) == <<"environment/sensors/devices/", topic_postfix(mode)>>

\* lines 585-589
Payload(m, power) ==
    [temper_temperature |-> m.raw_celsius,
     corrected_temperature |-> m.calibrated_celsius,
     heat_plate_power |-> power]

\* a gate that forgets the free mode
ShouldPublishAnyMode(push, mode) == push

\* line 590
ShouldPublish(push, mode) == push /\ mode.NAME # "free"

\* an mqtt_publish without its try/except
mqtt_publish_unguarded(outcome) ==
    IF outcome = "raised" THEN "propagated" ELSE "returned"

\* mqtt_publish, lines 101-107: what the caller sees of one transport call
mqtt_publish(outcome) == "returned"

\* a test of the wrong field: never skips
SkipCycleNever(m) == FALSE

\* line 564: the measurement has no external temperature
SkipCycle(m) == m.raw_celsius = <<>>

\* a thermostat that only ever switches off
ThermostatOffOnly(power, calibrated_celsius, mode) ==
    IF power = "on" /\ calibrated_celsius > mode.upper_limit THEN "turn_off"
    ELSE "none"

\* a thermostat with one threshold: it switches off above the lower limit
ThermostatSingleThreshold(power, calibrated_celsius, mode) ==
    IF power = "off" /\ calibrated_celsius < mode.lower_limit THEN "turn_on"
    ELSE IF power = "on" /\ calibrated_celsius > mode.lower_limit THEN "turn_off"
    ELSE "none"

\* a thermostat whose comparisons include the limits
ThermostatNonStrict(power, calibrated_celsius, mode) ==
    IF power = "off" /\ calibrated_celsius <= mode.lower_limit THEN "turn_on"
    ELSE IF power = "on" /\ calibrated_celsius >= mode.upper_limit THEN "turn_off"
    ELSE "none"

\* lines 597-625: what the thermostat does for a calibrated value in tenths
ThermostatEvaluation(power, calibrated_celsius, mode) ==
    IF power = "off" /\ calibrated_celsius < mode.lower_limit THEN "turn_on"
    ELSE IF power = "on" /\ calibrated_celsius > mode.upper_limit THEN "turn_off"
    ELSE "none"

ApplyThermostat(w, decision) ==
    CASE decision = "turn_on" -> turn_on(get_instance(w))
      [] decision = "turn_off" -> turn_off(get_instance(w))
      [] OTHER -> w

----------------------------------------------------------------------------
(* Initial state: after the module-level statements up to line 530.  Line  *)
(* 98 has set the relay pin up as output; no controller exists yet, it is  *)
(* constructed by the first get_instance call of the first frame.          *)

InitWith(calibrations) ==
    /\ pc = "poll"
    /\ exit_cause = "none"
    /\ LAST_POLL_TIME = 0
    /\ now = TEMPERATURE_POLL_FREQUENCY_SECONDS + FrameSeconds
    /\ button_states = poll_buttons(PinsOf({}))
    /\ current_heating_mode = NoMode
    /\ power_status = <<>>
    /\ latest_measurement = <<>>
    /\ temperature_records = <<>>
    /\ mqtt_calls = 0
    /\ mqtt_last = <<>>
    /\ _calibration \in calibrations
    /\ _instance = <<>>
    /\ _current_mode = NoMode
    /\ _power_status = NoPower
    /\ relay_pin = "OUT"
    /\ relay_call = <<"setup", "OUT">>
    /\ should_push \in BOOLEAN
    /\ LCD_BRIGHTNESS = LCD_BRIGHTNESS_LEVELS[2]
    /\ _previous_brightness = LCD_BRIGHTNESS_LEVELS[2]
    /\ backlight = LCD_BRIGHTNESS_LEVELS[2]
    /\ bl_updated = FALSE
    /\ direct_call = <<>>
    /\ results = <<>>

Init == InitWith(Calibrations)

----------------------------------------------------------------------------
(* The main loop *)

\* lines 535-556: poll the buttons, run the handlers of the pressed ones in
\* order, read the current mode
PollAndDispatch(pinsets) ==
    /\ pc = "poll"
    /\ \E pins \in pinsets :
          LET states == poll_buttons(pins)
              d == Dispatch(World, states)
              w == IF d.raised # "none" THEN d ELSE get_instance(d)
          IN  /\ button_states' = states
              /\ SetWorld(w)
              /\ IF w.raised # "none"
                 THEN /\ pc' = "cleanup"
                      /\ exit_cause' = "Exception"
                      /\ UNCHANGED current_heating_mode
                 ELSE /\ pc' = "gate"
                      /\ exit_cause' = "none"
                      /\ current_heating_mode' = w._current_mode
    /\ UNCHANGED <<now, LAST_POLL_TIME, power_status, latest_measurement,
                   temperature_records, mqtt_calls, mqtt_last, _calibration,
                   backlight, bl_updated, direct_call, results>>

\* a gate that opens when exactly one poll interval has elapsed
SlowGateNonStrict ==
    /\ pc = "gate"
    /\ LET tN == now
       IN  IF tN - LAST_POLL_TIME >= TEMPERATURE_POLL_FREQUENCY_SECONDS
           THEN LAST_POLL_TIME' = tN /\ pc' = "sense"
           ELSE UNCHANGED LAST_POLL_TIME /\ pc' = "render"
    /\ button_states' = poll_buttons(PinsOf({}))
    /\ UNCHANGED <<exit_cause, now, current_heating_mode, power_status,
                   latest_measurement, temperature_records, mqtt_calls,
                   mqtt_last, _calibration, _instance, _current_mode, _power_status,
                   relay_pin, relay_call, should_push, LCD_BRIGHTNESS,
                   _previous_brightness, backlight, bl_updated, direct_call, results>>

\* lines 557-559: the slow-cadence gate.  button_states is not read again in
\* this frame and is forgotten here.
SlowGate ==
    /\ pc = "gate"
    /\ LET tN == now
       IN  IF tN - LAST_POLL_TIME > TEMPERATURE_POLL_FREQUENCY_SECONDS
           THEN LAST_POLL_TIME' = tN /\ pc' = "sense"
           ELSE UNCHANGED LAST_POLL_TIME /\ pc' = "render"
    /\ button_states' = poll_buttons(PinsOf({}))
    /\ UNCHANGED <<exit_cause, now, current_heating_mode, power_status,
                   latest_measurement, temperature_records, mqtt_calls,
                   mqtt_last, _calibration, _instance, _current_mode, _power_status,
                   relay_pin, relay_call, should_push, LCD_BRIGHTNESS,
                   _previous_brightness, backlight, bl_updated, direct_call, results>>

\* a sensor read that treats a readout without any result like one without
\* the external channel: it gives the tick up and the loop goes on
SenseRetrying(reads) ==
    /\ pc = "sense"
    /\ \E r \in reads :
          /\ results' = <<r>>
          /\ IF r = <<>>
             THEN /\ now + AbsentSleepSeconds <= MaxTime
                  /\ now' = now + AbsentSleepSeconds
                  /\ pc' = "poll"
                  /\ exit_cause' = "none"
                  /\ SetWorld(World)
                  /\ UNCHANGED <<power_status, latest_measurement,
                                 temperature_records>>
             ELSE LET m == MeasurementOf(_calibration, r[1], now)
                      c == get_instance(World)
                  IN  /\ latest_measurement' = <<m>>
                      /\ power_status' = <<c._power_status>>
                      /\ SetWorld(c)
                      /\ exit_cause' = "none"
                      /\ IF SkipCycle(m)
                         THEN /\ now + AbsentSleepSeconds <= MaxTime
                              /\ now' = now + AbsentSleepSeconds
                              /\ pc' = "poll"
                              /\ UNCHANGED temperature_records
                         ELSE /\ temperature_records' = DequeAppend(temperature_records, m)
                              /\ pc' = "publish"
                              /\ UNCHANGED now
    /\ UNCHANGED <<LAST_POLL_TIME, button_states, current_heating_mode,
                   mqtt_calls, mqtt_last, _calibration, backlight,
                   bl_updated, direct_call>>

\* lines 561-568 with get_current_measurement and get_readout
Sense(reads) ==
    /\ pc = "sense"
    /\ \E r \in reads :
          /\ results' = <<r>>
          /\ IF r = <<>>
             THEN \* sys.exit(-1): SystemExit is no Exception and passes both
                  \* except clauses; the statements after the try do not run
                  /\ pc' = "terminated"
                  /\ exit_cause' = "SystemExit"
                  /\ SetWorld(World)
                  /\ UNCHANGED <<now, power_status, latest_measurement,
                                 temperature_records>>
             ELSE LET m == MeasurementOf(_calibration, r[1], now)
                      c == get_instance(World)
                  IN  /\ latest_measurement' = <<m>>
                      /\ power_status' = <<c._power_status>>
                      /\ SetWorld(c)
                      /\ exit_cause' = "none"
                      /\ IF SkipCycle(m)
                         THEN /\ now + AbsentSleepSeconds <= MaxTime
                              /\ now' = now + AbsentSleepSeconds
                              /\ pc' = "poll"
                              /\ UNCHANGED temperature_records
                         ELSE /\ temperature_records' = DequeAppend(temperature_records, m)
                              /\ pc' = "publish"
                              /\ UNCHANGED now
    /\ UNCHANGED <<LAST_POLL_TIME, button_states, current_heating_mode,
                   mqtt_calls, mqtt_last, _calibration, backlight,
                   bl_updated, direct_call>>

\* a slow tick that evaluates the thermostat before it publishes, so that
\* the payload carries the power the thermostat has just set
TelemetryAfterThermostat ==
    /\ pc = "publish"
    /\ LET w == ApplyThermostat(World,
                    ThermostatEvaluation(power_status[1],
                                         latest_measurement[1].calibrated_celsius[1],
                                         current_heating_mode))
       IN  /\ SetWorld(w)
           /\ IF ShouldPublish(should_push, current_heating_mode)
              THEN \E outcome \in {"sent", "raised"} :
                      /\ mqtt_calls' = mqtt_calls + 1
                      /\ mqtt_last' = <<[topic |-> Topic(current_heating_mode),
                                         payload |-> Payload(latest_measurement[1],
                                                             w._power_status),
                                         outcome |-> outcome]>>
              ELSE UNCHANGED <<mqtt_calls, mqtt_last>>
    /\ pc' = "thermostat"
    /\ exit_cause' = "none"
    /\ UNCHANGED <<now, LAST_POLL_TIME, button_states,
                   current_heating_mode, power_status, latest_measurement,
                   temperature_records, _calibration, backlight,
                   bl_updated, direct_call, results>>

\* lines 578-595 with mqtt_publish: the transport call succeeds or raises,
\* and mqtt_publish swallows what it raises
Telemetry ==
    /\ pc = "publish"
    /\ IF ShouldPublish(should_push, current_heating_mode)
       THEN \E outcome \in {"sent", "raised"} :
               /\ mqtt_calls' = mqtt_calls + 1
               /\ mqtt_last' = <<[topic |-> Topic(current_heating_mode),
                                  payload |-> Payload(latest_measurement[1],
                                                      power_status[1]),
                                  outcome |-> outcome]>>
               /\ IF mqtt_publish(outcome) = "propagated"
                  THEN pc' = "cleanup" /\ exit_cause' = "Exception"
                  ELSE pc' = "thermostat" /\ exit_cause' = "none"
       ELSE /\ UNCHANGED <<mqtt_calls, mqtt_last>>
            /\ pc' = "thermostat"
            /\ exit_cause' = "none"
    /\ UNCHANGED <<now, LAST_POLL_TIME, button_states,
                   current_heating_mode, power_status, latest_measurement,
                   temperature_records, _calibration, _instance, _current_mode,
                   _power_status, relay_pin, relay_call, should_push,
                   LCD_BRIGHTNESS, _previous_brightness, backlight,
                   bl_updated, direct_call, results>>

\* lines 597-625
Thermostat ==
    /\ pc = "thermostat"
    /\ IF latest_measurement[1].calibrated_celsius = <<>>
       THEN \* comparing None with a float raises TypeError
            /\ pc' = "cleanup"
            /\ exit_cause' = "Exception"
            /\ SetWorld(World)
       ELSE /\ SetWorld(ApplyThermostat(World,
                   ThermostatEvaluation(power_status[1],
                                        latest_measurement[1].calibrated_celsius[1],
                                        current_heating_mode)))
            /\ pc' = "render"
            /\ exit_cause' = "none"
    /\ UNCHANGED <<now, LAST_POLL_TIME, button_states,
                   current_heating_mode, power_status, latest_measurement,
                   temperature_records, mqtt_calls, mqtt_last, _calibration,
                   backlight, bl_updated, direct_call, results>>

\* lines 627-678: draw, render, re-apply the backlight if the brightness
\* changed, sleep
EndFrame ==
    /\ pc = "render"
    /\ IF brightness_changed(World)
       THEN backlight' = LCD_BRIGHTNESS /\ bl_updated' = TRUE
       ELSE UNCHANGED backlight /\ bl_updated' = FALSE
    /\ \E d \in FrameDurations :
          /\ now + d <= MaxTime
          /\ now' = now + d
    /\ pc' = "poll"
    /\ UNCHANGED <<exit_cause, LAST_POLL_TIME, button_states,
                   current_heating_mode, power_status, latest_measurement,
                   temperature_records, mqtt_calls, mqtt_last, _calibration,
                   _instance, _current_mode, _power_status, relay_pin, relay_call,
                   should_push, LCD_BRIGHTNESS, _previous_brightness, direct_call, results>>

LoopPcs == {"poll", "gate", "sense", "publish", "thermostat", "render"}

\* line 680: Ctrl-C arrives while the loop runs
KeyboardInterrupt ==
    /\ pc \in LoopPcs
    /\ pc' = "cleanup"
    /\ exit_cause' = "KeyboardInterrupt"
    /\ UNCHANGED <<now, LAST_POLL_TIME, button_states, current_heating_mode,
                   power_status, latest_measurement, temperature_records,
                   mqtt_calls, mqtt_last, _calibration, _instance, _current_mode,
                   _power_status, relay_pin, relay_call, should_push,
                   LCD_BRIGHTNESS, _previous_brightness, backlight,
                   bl_updated, direct_call, results>>

\* lines 683-697: a collaborator called by the loop (the pin reads, the
\* sensor read, the drawing) raises an Exception
UnhandledException ==
    /\ pc \in {"poll", "sense", "render"}
    /\ pc' = "cleanup"
    /\ exit_cause' = "Exception"
    /\ UNCHANGED <<now, LAST_POLL_TIME, button_states, current_heating_mode,
                   power_status, latest_measurement, temperature_records,
                   mqtt_calls, mqtt_last, _calibration, _instance, _current_mode,
                   _power_status, relay_pin, relay_call, should_push,
                   LCD_BRIGHTNESS, _previous_brightness, backlight,
                   bl_updated, direct_call, results>>

\* a script that calls GPIO.cleanup() only in the KeyboardInterrupt clause
ShutdownOnInterruptOnly ==
    /\ pc = "cleanup"
    /\ IF exit_cause = "KeyboardInterrupt"
       THEN relay_pin' = "IN" /\ relay_call' = <<"cleanup">>
       ELSE UNCHANGED <<relay_pin, relay_call>>
    /\ pc' = "exited"
    /\ UNCHANGED <<exit_cause, now, LAST_POLL_TIME, button_states,
                   current_heating_mode, power_status, latest_measurement,
                   temperature_records, mqtt_calls, mqtt_last, _calibration,
                   _instance, _current_mode, _power_status, should_push, LCD_BRIGHTNESS,
                   _previous_brightness, backlight, bl_updated, direct_call, results>>

\* line 699: GPIO.cleanup() returns every channel the script set up to input
Shutdown ==
    /\ pc = "cleanup"
    /\ relay_pin' = "IN"
    /\ relay_call' = <<"cleanup">>
    /\ pc' = "exited"
    /\ UNCHANGED <<exit_cause, now, LAST_POLL_TIME, button_states,
                   current_heating_mode, power_status, latest_measurement,
                   temperature_records, mqtt_calls, mqtt_last, _calibration,
                   _instance, _current_mode, _power_status, should_push, LCD_BRIGHTNESS,
                   _previous_brightness, backlight, bl_updated, direct_call, results>>

\* one step of the script, its inputs drawn from the given pin levels and
\* sensor readouts
LoopNext(pinsets, reads) ==
    \/ PollAndDispatch(pinsets)
    \/ SlowGate
    \/ Sense(reads)
    \/ Telemetry
    \/ Thermostat
    \/ EndFrame
    \/ KeyboardInterrupt
    \/ UnhandledException
    \/ Shutdown

Next == LoopNext(ControlPins, SensorReads)

Spec == Init /\ [][Next]_vars

----------------------------------------------------------------------------
(* A direct call of HeatingController.change_to_mode between two frames,    *)
(* with a name that may or may not be in the catalog.  The script itself   *)
(* calls change_to_mode only from handle_key_2.                            *)

ModeNameInputs == {"natto", "greek yogurt", "free", "yogurt", ""}

CallChangeToMode(new_mode) ==
    /\ pc = "poll"
    /\ LET w == change_to_mode(get_instance(World), new_mode)
       IN  /\ SetWorld(w)
           /\ direct_call' = <<[new_mode |-> new_mode, raised |-> w.raised]>>
    /\ UNCHANGED <<pc, exit_cause, now, LAST_POLL_TIME, button_states,
                   current_heating_mode, power_status, latest_measurement,
                   temperature_records, mqtt_calls, mqtt_last, _calibration,
                   backlight, bl_updated, results>>

\* the frames and readouts around the direct calls: no key, KEY2 or KEY3 (so
\* that the calls meet every mode and both power states), and one readout of
\* each kind
ApiPins == {PinsOf({}), PinsOf({"KEY2"}), PinsOf({"KEY3"})}

ApiReads ==
    {<<>>, <<[external_temperature |-> <<>>]>>,
     <<[external_temperature |-> <<4100>>]>>}

NextApi ==
    \/ LoopNext(ApiPins, ApiReads)
    \/ \E new_mode \in ModeNameInputs : CallChangeToMode(new_mode)

SpecApi == Init /\ [][NextApi]_vars

----------------------------------------------------------------------------
(* Steps of the loop, told apart by the positions they join *)

\* the thermostat evaluation of a slow tick with a valid measurement
ThermostatStep == pc = "thermostat" /\ pc' = "render"

\* the telemetry gating of a slow tick with a valid measurement
TelemetryStep == pc = "publish" /\ exit_cause' = "none"

\* the button dispatch of a frame
DispatchStep == pc = "poll" /\ pc' = "gate"

\* the sensor read of a slow tick, when the sensor yields a readout
SenseStep == pc = "sense" /\ exit_cause' = "none"

\* the calibrated temperature of the latest measurement, in tenths
Calibrated == latest_measurement[1].calibrated_celsius[1]

\* this frame is a slow tick whose thermostat evaluation is done
TickDone == pc = "render" /\ LAST_POLL_TIME = now

RelayUnchanged == UNCHANGED <<_power_status, relay_pin, relay_call>>

ControllerExists == _instance # <<>>

\* mode and power as the first controller call of a step finds them: those
\* of the controller, or of the one that call constructs
ModeBefore == IF ControllerExists THEN _current_mode ELSE AVAILABLE_MODES[3]

PowerBefore == IF ControllerExists THEN _power_status ELSE "on"

----------------------------------------------------------------------------
(* C1 *)

\* the power after each of a sequence of raw readings, fed one per slow tick
\* to the thermostat of the given mode, with no calibration points
RECURSIVE PowerSequence(_, _, _)
PowerSequence(power, raws, mode) ==
    IF raws = <<>> THEN <<>>
    ELSE LET m == MeasurementOf(<<>>, [external_temperature |-> <<Head(raws)>>], 0)
             w == ApplyThermostat([World EXCEPT !._power_status = power],
                      ThermostatEvaluation(power, m.calibrated_celsius[1], mode))
         IN  <<w._power_status>> \o PowerSequence(w._power_status, Tail(raws), mode)

NattoScenario ==
    PowerSequence("off", <<3900, 4000, 4100, 4000>>, AVAILABLE_MODES[1])
        = <<"on", "on", "off", "off">>

\* C1: a thermostat evaluation turns the power on when it is off and the
\* calibrated temperature is below the lower limit of the current mode, turns
\* it off when it is on and the temperature is above the upper limit, and
\* leaves it alone otherwise; mode natto, starting off, answers the readings
\* 39.0, 40.0, 41.0, 40.0 with on, on, off, off.
C1_ThermostatRule ==
    [][ /\ NattoScenario
        /\ ThermostatStep =>
              /\ _current_mode \in {AVAILABLE_MODES[i] : i \in 1..Len(AVAILABLE_MODES)}
              /\ IF _power_status = "off" /\ Calibrated < _current_mode.lower_limit
                 THEN _power_status' = "on"
                 ELSE IF _power_status = "on" /\ Calibrated > _current_mode.upper_limit
                      THEN _power_status' = "off"
                      ELSE _power_status' = _power_status ]_vars

\* mode natto, power off, a reading below 39.8: the tick has turned it on
C1_Witness ==
    /\ TickDone
    /\ _current_mode.NAME = "natto"
    /\ power_status = <<"off">>
    /\ Calibrated < _current_mode.lower_limit
    /\ _power_status = "on"

----------------------------------------------------------------------------
(* C2 *)

\* C2: the comparisons are strict: a calibrated temperature equal to the
\* lower limit while the power is off does not turn it on, and one equal to
\* the upper limit while the power is on does not turn it off.
C2_StrictComparisons ==
    [][ ThermostatStep =>
          /\ (_power_status = "off" /\ Calibrated = _current_mode.lower_limit)
                => (_power_status' = "off" /\ RelayUnchanged)
          /\ (_power_status = "on" /\ Calibrated = _current_mode.upper_limit)
                => (_power_status' = "on" /\ RelayUnchanged) ]_vars

\* mode natto, power off, a reading that calibrates to exactly 39.8: still off
C2_Witness ==
    /\ TickDone
    /\ _current_mode.NAME = "natto"
    /\ power_status = <<"off">>
    /\ Calibrated = _current_mode.lower_limit
    /\ _power_status = "off"

----------------------------------------------------------------------------
(* C3 *)

\* the steps of the loop that call turn_off, and those that call turn_on
CallsTurnOff ==
    \/ ThermostatStep /\ _power_status = "on" /\ Calibrated > _current_mode.upper_limit
    \/ DispatchStep /\ button_states'["KEY3"] /\ _current_mode'.NAME = "free"
                    /\ PowerBefore = "on"

CallsTurnOn ==
    \/ ThermostatStep /\ _power_status = "off" /\ Calibrated < _current_mode.lower_limit
    \/ DispatchStep /\ button_states'["KEY3"] /\ _current_mode'.NAME = "free"
                    /\ PowerBefore = "off"

NoLevelWrite == relay_call[1] # "output"

\* C3: every turn_off sets the power off and releases the relay pin to input,
\* every turn_on sets it on and drives the pin as output, and no call ever
\* writes a logic level to the pin.
C3_RelayPolarity ==
    [][ /\ NoLevelWrite /\ NoLevelWrite'
        /\ CallsTurnOff => /\ _power_status' = "off"
                           /\ relay_call' = <<"setup", "IN">>
                           /\ relay_pin' = "IN"
        /\ CallsTurnOn => /\ _power_status' = "on"
                          /\ relay_call' = <<"setup", "OUT">>
                          /\ relay_pin' = "OUT" ]_vars

\* the thermostat has turned the heater off: the pin is released
C3_Witness ==
    /\ TickDone
    /\ power_status = <<"on">>
    /\ _power_status = "off"
    /\ relay_call = <<"setup", "IN">>
    /\ relay_pin = "IN"

----------------------------------------------------------------------------
(* C4 *)

\* after either except clause the script runs on to line 699
FairSpec == Spec /\ WF_vars(Shutdown)

LoopEndedByException == exit_cause \in {"KeyboardInterrupt", "Exception"}

\* C4: when the loop is ended by KeyboardInterrupt or by another Exception,
\* the shutdown step runs and leaves the relay pin released (input), whatever
\* the power status was.
C4_ShutdownReleasesRelay ==
    /\ [][ (exit_cause = "none" /\ LoopEndedByException') => pc' = "cleanup" ]_vars
    /\ [](LoopEndedByException /\ pc = "exited" => relay_pin = "IN")
    /\ LoopEndedByException ~> (pc = "exited" /\ relay_pin = "IN")

\* the loop was interrupted with the heater on, and the shutdown has run
C4_Witness ==
    /\ pc = "exited"
    /\ exit_cause = "Exception"
    /\ _power_status = "on"
    /\ relay_call = <<"cleanup">>
    /\ relay_pin = "IN"

----------------------------------------------------------------------------
(* C5 *)

\* the sensor read of a slow tick yields a readout without the external
\* temperature channel
AbsentSenseStep ==
    /\ SenseStep
    /\ latest_measurement' # <<>>
    /\ latest_measurement'[1].raw_celsius = <<>>

\* C5: a slow tick whose measurement lacks the external temperature (raw and
\* calibrated both absent) makes no relay transition, leaves power and mode
\* unchanged, issues no transport call, appends nothing to the history, and
\* the loop goes on with the next frame.
C5_AbsentChannelSkipsCycle ==
    [][ AbsentSenseStep =>
          /\ latest_measurement'[1].calibrated_celsius = <<>>
          /\ RelayUnchanged
          /\ UNCHANGED <<_current_mode, mqtt_calls, mqtt_last, temperature_records>>
          /\ pc' = "poll"
          /\ exit_cause' = "none" ]_vars

\* the first slow tick read no external temperature and the loop is at its
\* next frame, with nothing published and nothing recorded
C5_Witness ==
    /\ pc = "poll"
    /\ exit_cause = "none"
    /\ latest_measurement # <<>>
    /\ latest_measurement[1].raw_celsius = <<>>
    /\ latest_measurement[1].calibrated_celsius = <<>>
    /\ now = LAST_POLL_TIME + AbsentSleepSeconds
    /\ temperature_records = <<>>
    /\ mqtt_calls = 0

----------------------------------------------------------------------------
(* C6 *)

TopicPrefix == "environment/sensors/devices/"

\* the suffixes that name a mode: its raw name, and the friendly one of the
\* natto and of the yogurt mode
SuffixesOf(mode) ==
    {mode.NAME} \cup (IF mode.NAME = "natto" THEN {"inside natto bowl"} ELSE {})
                \cup (IF mode = AVAILABLE_MODES[2] THEN {"inside yogurt bowl"} ELSE {})

\* C6: on a slow tick with a valid measurement no transport call is issued in
\* mode free, whatever the flag, nor in another mode with the flag false; in
\* another mode with the flag true exactly one call is issued, its topic
\* environment/sensors/devices/ followed by a suffix derived from the mode.
\* No other step issues a transport call.
C6_TelemetryGating ==
    [][ /\ mqtt_calls' # mqtt_calls => TelemetryStep
        /\ TelemetryStep =>
              IF _current_mode.NAME = "free" \/ ~should_push
              THEN UNCHANGED <<mqtt_calls, mqtt_last>>
              ELSE /\ mqtt_calls' = mqtt_calls + 1
                   /\ mqtt_last'[1].topic[1] = TopicPrefix
                   /\ mqtt_last'[1].topic[2] \in SuffixesOf(_current_mode) ]_vars

\* mode natto with the flag set: the tick has issued its one call
C6_Witness ==
    /\ pc = "thermostat"
    /\ should_push
    /\ _current_mode.NAME = "natto"
    /\ mqtt_calls = 1
    /\ mqtt_last[1].topic = <<TopicPrefix, "inside natto bowl">>
    /\ mqtt_last[1].payload.corrected_temperature = <<Calibrated>>

----------------------------------------------------------------------------
(* C7 *)

\* the transport call of this step raises
FailedPublishStep ==
    /\ pc = "publish"
    /\ mqtt_calls' = mqtt_calls + 1
    /\ mqtt_last'[1].outcome = "raised"

\* the transport call of the current slow tick has raised
PublishFailedThisTick ==
    /\ should_push /\ _current_mode.NAME # "free"
    /\ mqtt_last # <<>>
    /\ mqtt_last[1].outcome = "raised"

\* C7: a transport failure is swallowed: the step that meets it changes
\* neither controller nor relay and goes on to the thermostat evaluation of
\* the same tick, which decides as it does after a successful publish, and
\* the loop does not enter shutdown.
C7_TelemetryFailureSwallowed ==
    [][ /\ FailedPublishStep =>
              /\ pc' = "thermostat"
              /\ exit_cause' = "none"
              /\ RelayUnchanged
              /\ UNCHANGED <<_current_mode, should_push, latest_measurement,
                             temperature_records>>
        /\ (pc = "thermostat" /\ PublishFailedThisTick /\ exit_cause' = "none") =>
              /\ pc' = "render"
              /\ IF _power_status = "off" /\ Calibrated < _current_mode.lower_limit
                 THEN _power_status' = "on" /\ relay_pin' = "OUT"
                 ELSE IF _power_status = "on" /\ Calibrated > _current_mode.upper_limit
                      THEN _power_status' = "off" /\ relay_pin' = "IN"
                      ELSE RelayUnchanged ]_vars

\* the publish of this tick failed and its thermostat has still turned the
\* heater off
C7_Witness ==
    /\ TickDone
    /\ exit_cause = "none"
    /\ PublishFailedThisTick
    /\ mqtt_last[1].payload.corrected_temperature = <<Calibrated>>
    /\ power_status = <<"on">>
    /\ _power_status = "off"

----------------------------------------------------------------------------
(* C8 *)

\* the suffix of each catalog mode: the friendly one of the natto and of the
\* yogurt mode, the raw name of any other
FriendlySuffix(mode) ==
    IF mode = AVAILABLE_MODES[1] THEN "inside natto bowl"
    ELSE IF mode = AVAILABLE_MODES[2] THEN "inside yogurt bowl"
    ELSE mode.NAME

\* C8: the natto mode and the yogurt mode of the catalog are published under
\* 'inside natto bowl' and 'inside yogurt bowl', every other mode under its
\* raw name.
C8_TopicSuffix ==
    [][ (TelemetryStep /\ mqtt_calls' = mqtt_calls + 1) =>
            mqtt_last'[1].topic[2] = FriendlySuffix(_current_mode) ]_vars

----------------------------------------------------------------------------
(* C9 *)

ModeInCatalog ==
    \E i \in 1..Len(AVAILABLE_MODES) : _current_mode = AVAILABLE_MODES[i]

\* the entry after a mode in the catalog, the first one after the last
NextInCatalog(mode) ==
    IF mode = AVAILABLE_MODES[Len(AVAILABLE_MODES)] THEN AVAILABLE_MODES[1]
    ELSE AVAILABLE_MODES[IndexOf(AVAILABLE_MODES, mode) + 1]

RECURSIVE Cycled(_, _)
Cycled(w, n) == IF n = 0 THEN w ELSE Cycled(handle_key_2(w), n - 1)

CycleReturns == Cycled(World, Len(AVAILABLE_MODES))._current_mode = ModeBefore

\* C9: the KEY2 handler moves the current mode to the next catalog entry and
\* wraps from the last to the first; cycling as many times as the catalog
\* has entries gives the mode back; the current mode of the controller is
\* always a catalog entry, and nothing else in the loop changes it.
C9_ModeCycling ==
    [][ /\ ControllerExists' => ModeInCatalog'
        /\ CycleReturns
        /\ _current_mode' # _current_mode => DispatchStep
        /\ DispatchStep =>
              _current_mode' = IF button_states'["KEY2"]
                               THEN NextInCatalog(ModeBefore)
                               ELSE ModeBefore ]_vars

\* KEY2 was pressed in a later frame and the mode is free again, as at start
C9_Witness ==
    /\ pc = "gate"
    /\ button_states["KEY2"]
    /\ _current_mode = AVAILABLE_MODES[3]

----------------------------------------------------------------------------
(* C10 *)

CatalogNames == {AVAILABLE_MODES[i].NAME : i \in 1..Len(AVAILABLE_MODES)}

\* C10: change_to_mode with a name that no catalog entry has reports an
\* invalid-argument error and leaves mode and power unchanged; with a catalog
\* name it sets the current mode to that entry; in both cases power status
\* and relay pin are unchanged, and no step that only changes the mode
\* changes them.
C10_ChangeToMode ==
    [][ /\ \A name \in ModeNameInputs :
              CallChangeToMode(name) =>
                 /\ _power_status' = PowerBefore
                 /\ UNCHANGED <<relay_pin, relay_call>>
                 /\ direct_call'[1].new_mode = name
                 /\ IF name \in CatalogNames
                    THEN /\ direct_call'[1].raised = "none"
                         /\ ModeInCatalog'
                         /\ _current_mode'.NAME = name
                    ELSE /\ direct_call'[1].raised = "ValueError"
                         /\ _current_mode' = ModeBefore
        /\ (ControllerExists' /\ _current_mode' # ModeBefore) =>
              /\ _power_status' = PowerBefore
              /\ UNCHANGED <<relay_pin, relay_call>> ]_vars

\* an unknown name was reported while the mode was natto and the heater off
C10_Witness ==
    /\ direct_call # <<>>
    /\ direct_call[1].new_mode \notin CatalogNames
    /\ direct_call[1].raised = "ValueError"
    /\ _current_mode.NAME = "natto"
    /\ _power_status = "off"
    /\ relay_pin = "IN"

----------------------------------------------------------------------------
(* The loop with every key that has a handler, and a button that has none  *)

\* pin levels of the frames: any combination of the three keys and CENTER
UiPins == {PinsOf(S) : S \in SUBSET {"KEY1", "KEY2", "KEY3", "CENTER"}}

\* readouts of the slow ticks: none at all, one without the external
\* channel, one below and one above the limits of the cooking modes
UiReads ==
    {<<>>, <<[external_temperature |-> <<>>]>>,
     <<[external_temperature |-> <<3900>>]>>,
     <<[external_temperature |-> <<4300>>]>>}

NextUi == LoopNext(UiPins, UiReads)

SpecUi == InitWith({<<>>}) /\ [][NextUi]_vars

----------------------------------------------------------------------------
(* C11 *)

\* frames a button is held for
MaxHeld == 4

\* the brightness level after a level, the first one after the last
NextBrightness(level) ==
    IF level = LCD_BRIGHTNESS_LEVELS[Len(LCD_BRIGHTNESS_LEVELS)]
    THEN LCD_BRIGHTNESS_LEVELS[1]
    ELSE LCD_BRIGHTNESS_LEVELS[IndexOf(LCD_BRIGHTNESS_LEVELS, level) + 1]

\* the controller after n frames in which the buttons read the same levels
RECURSIVE Held(_, _, _)
Held(w, pins, n) ==
    IF n = 0 THEN w
    ELSE LET next_w == Dispatch(w, poll_buttons(pins))
         IN  Held(next_w, pins, n - 1)

RECURSIVE StepsOn(_, _)
StepsOn(mode, n) ==
    IF n = 0 THEN mode
    ELSE LET next_mode == NextInCatalog(mode)
         IN  StepsOn(next_mode, n - 1)

\* holding KEY2 for k frames from this one on advances the mode k steps
HeldKey2Advances ==
    \A k \in 1..MaxHeld :
        Held(World, PinsOf({"KEY2"}), k)._current_mode = StepsOn(ModeBefore, k)

\* one flip of either the power or the telemetry flag, not both
OneToggle ==
    (_power_status' # PowerBefore) # (should_push' # should_push)

\* C11: dispatch is level-triggered: in every frame, each key read as pressed
\* has its handler invoked exactly once (KEY1 moves the brightness one level
\* on, KEY2 the mode one entry on, KEY3 toggles once), whatever was read in
\* the frame before; a key read as released and a pressed button without
\* handler invoke nothing; KEY2 held for k frames advances the mode k steps.
C11_LevelTriggered ==
    [][ /\ (DispatchStep /\ button_states'["KEY2"]) => HeldKey2Advances
        /\ DispatchStep =>
              /\ LCD_BRIGHTNESS' = IF button_states'["KEY1"]
                                   THEN NextBrightness(LCD_BRIGHTNESS)
                                   ELSE LCD_BRIGHTNESS
              /\ _current_mode' = IF button_states'["KEY2"]
                                  THEN NextInCatalog(ModeBefore)
                                  ELSE ModeBefore
              /\ IF button_states'["KEY3"] THEN OneToggle
                 ELSE /\ _power_status' = PowerBefore
                      /\ UNCHANGED <<should_push, relay_pin, relay_call>>
              /\ ~button_states'["KEY1"] => UNCHANGED _previous_brightness
              /\ (\A i \in 1..Len(BUTTON_CONFIG) :
                     button_states'[BUTTON_CONFIG[i].name]
                        => BUTTON_CONFIG[i].handler = "none")
                   => /\ _current_mode' = ModeBefore
                      /\ _power_status' = PowerBefore
                      /\ UNCHANGED <<relay_pin, relay_call, should_push,
                                     LCD_BRIGHTNESS, _previous_brightness>> ]_vars

\* KEY2 was read as pressed in the first frame and again in the second, and
\* the mode is two entries on from free
C11_Witness ==
    /\ pc = "gate"
    /\ now = TEMPERATURE_POLL_FREQUENCY_SECONDS + 2 * FrameSeconds
    /\ button_states["KEY2"]
    /\ _current_mode = StepsOn(AVAILABLE_MODES[3], 2)

----------------------------------------------------------------------------
(* C12 *)

\* a frame whose dispatch runs the KEY3 handler; the mode the handler finds
\* is the one the frame ends with, KEY2 being dispatched before KEY3
Key3Step == DispatchStep /\ button_states'["KEY3"]

\* C12: the KEY3 handler in mode free toggles the power (off to on with the
\* pin driven as output, on to off with the pin released) and leaves the
\* telemetry flag and the mode alone; in any other mode it negates the
\* telemetry flag and leaves power, relay pin and mode alone.
C12_Key3ModeDependent ==
    [][ Key3Step =>
          /\ _current_mode' = IF button_states'["KEY2"]
                              THEN NextInCatalog(ModeBefore) ELSE ModeBefore
          /\ IF _current_mode'.NAME = "free"
             THEN /\ should_push' = should_push
                  /\ IF PowerBefore = "off"
                     THEN /\ _power_status' = "on"
                          /\ relay_pin' = "OUT"
                          /\ relay_call' = <<"setup", "OUT">>
                     ELSE /\ _power_status' = "off"
                          /\ relay_pin' = "IN"
                          /\ relay_call' = <<"setup", "IN">>
             ELSE /\ should_push' = ~should_push
                  /\ _power_status' = PowerBefore
                  /\ UNCHANGED <<relay_pin, relay_call>> ]_vars

\* KEY3 alone in the second frame, in mode natto with the heater on: the
\* handler has left mode, power and relay alone
C12_Witness ==
    /\ pc = "gate"
    /\ now = TEMPERATURE_POLL_FREQUENCY_SECONDS + 2 * FrameSeconds
    /\ button_states["KEY3"] /\ ~button_states["KEY2"]
    /\ _current_mode.NAME = "natto"
    /\ _power_status = "on"
    /\ relay_call = <<"setup", "OUT">>

----------------------------------------------------------------------------
(* C13 *)

\* no button with a handler is read as pressed in this frame
NoKeyPressed ==
    \A i \in 1..Len(BUTTON_CONFIG) :
        button_states'[BUTTON_CONFIG[i].name] => BUTTON_CONFIG[i].handler = "none"

\* C13: the controller is constructed once, by the first frame, in mode free
\* (0 to 100) with the power on and the relay pin driven as output; once it
\* exists no step constructs another one, the mode moves only by a KEY2 press
\* and the power only by a KEY3 press in mode free or by the thermostat.
C13_ConstructedOnce ==
    [][ /\ _instance \in {<<>>, <<1>>} /\ _instance' \in {<<>>, <<1>>}
        /\ (~ControllerExists /\ DispatchStep) => ControllerExists'
        /\ (~ControllerExists /\ DispatchStep /\ NoKeyPressed) =>
              /\ _current_mode' = AVAILABLE_MODES[3]
              /\ _current_mode'.NAME = "free"
              /\ _current_mode'.lower_limit = 0
              /\ _current_mode'.upper_limit = 1000
              /\ _power_status' = "on"
              /\ relay_pin' = "OUT"
              /\ relay_call' = <<"setup", "OUT">>
        /\ ControllerExists =>
              /\ _instance' = _instance
              /\ _current_mode' # _current_mode
                    => DispatchStep /\ button_states'["KEY2"]
              /\ _power_status' # _power_status
                    => \/ Key3Step /\ _current_mode'.NAME = "free"
                       \/ ThermostatStep ]_vars

\* a second slow tick has ended with the one controller in mode natto and
\* the power off, after the controller calls of two ticks and their frames
C13_Witness ==
    /\ TickDone
    /\ now > TEMPERATURE_POLL_FREQUENCY_SECONDS + TEMPERATURE_POLL_FREQUENCY_SECONDS
    /\ _instance = <<1>>
    /\ _current_mode.NAME = "natto"
    /\ _power_status = "off"
    /\ relay_pin = "IN"

----------------------------------------------------------------------------
(* C14 *)

\* the sensor read of a slow tick returns no result at all
NoDataStep == pc = "sense" /\ results' = << <<>> >>

\* C14: a sensor read that yields no data at all ends the process on that
\* slow tick: the step makes no relay transition, no transport call and no
\* history append, and no step follows it, so the sensor is not read again;
\* nothing else ends the process this way, and a readout that only lacks the
\* external channel leaves the loop running.
C14_NoDataIsFatal ==
    [][ /\ NoDataStep =>
              /\ pc' = "terminated"
              /\ exit_cause' = "SystemExit"
              /\ RelayUnchanged
              /\ UNCHANGED <<_current_mode, mqtt_calls, mqtt_last,
                             temperature_records, latest_measurement>>
        /\ pc # "terminated"
        /\ pc' = "terminated" => NoDataStep
        /\ AbsentSenseStep => (pc' = "poll" /\ exit_cause' = "none") ]_vars

\* the second slow tick read no data: the process has ended with the
\* history and the transport calls of the first tick only
C14_Witness ==
    /\ pc = "terminated"
    /\ exit_cause = "SystemExit"
    /\ results = << <<>> >>
    /\ LAST_POLL_TIME = now
    /\ Len(temperature_records) = 1
    /\ temperature_records[1] = latest_measurement[1]
    /\ mqtt_calls = 1

----------------------------------------------------------------------------
(* The loop after many slow ticks, the history full or nearly so *)

\* seconds between two slow ticks of the past
PastTickSeconds == TEMPERATURE_POLL_FREQUENCY_SECONDS + FrameSeconds

\* what the slow ticks of the past read: 40.00 if any of them was valid,
\* no external channel otherwise
PastResult(n) ==
    [external_temperature |-> IF n = 0 THEN <<>> ELSE <<4000>>]

\* the history after n valid slow ticks, the last one at time 0, with no
\* calibration points
PastRecords(n) ==
    [j \in 1..n |->
        MeasurementOf(<<>>, PastResult(n), 0 - (n - j) * PastTickSeconds)]

\* numbers of valid slow ticks the loop has been through
PastTicks == {HistoryMaxLen - 2, HistoryMaxLen - 1, HistoryMaxLen}

\* the top of a frame, one poll interval after the last of the past ticks:
\* the controller exists, in any mode and power status
InitRunning(past_ticks) ==
    /\ pc = "poll"
    /\ exit_cause = "none"
    /\ LAST_POLL_TIME = 0
    /\ now = TEMPERATURE_POLL_FREQUENCY_SECONDS + FrameSeconds
    /\ button_states = poll_buttons(PinsOf({}))
    /\ \E n \in past_ticks :
          /\ temperature_records = PastRecords(n)
          /\ latest_measurement = <<MeasurementOf(<<>>, PastResult(n), 0)>>
          /\ results = << <<PastResult(n)>> >>
    /\ mqtt_calls = 0
    /\ mqtt_last = <<>>
    /\ _calibration = <<>>
    /\ _instance = <<1>>
    /\ _current_mode \in {AVAILABLE_MODES[i] : i \in 1..Len(AVAILABLE_MODES)}
    /\ current_heating_mode = _current_mode
    /\ _power_status \in {"on", "off"}
    /\ power_status = <<_power_status>>
    /\ relay_pin = IF _power_status = "on" THEN "OUT" ELSE "IN"
    /\ relay_call = <<"setup", relay_pin>>
    /\ should_push \in BOOLEAN
    /\ LCD_BRIGHTNESS = LCD_BRIGHTNESS_LEVELS[2]
    /\ _previous_brightness = LCD_BRIGHTNESS_LEVELS[2]
    /\ backlight = LCD_BRIGHTNESS_LEVELS[2]
    /\ bl_updated = FALSE
    /\ direct_call = <<>>

InitRing == InitRunning(PastTicks)

RingPins == {PinsOf({}), PinsOf({"KEY3"})}

RingReads ==
    {<<>>, <<[external_temperature |-> <<>>]>>,
     <<[external_temperature |-> <<3900>>]>>,
     <<[external_temperature |-> <<4300>>]>>}

NextRing == LoopNext(RingPins, RingReads)

SpecRing == InitRing /\ [][NextRing]_vars

----------------------------------------------------------------------------
(* C15 *)

\* the sensor read of a slow tick yields a valid measurement
ValidSenseStep ==
    /\ SenseStep
    /\ latest_measurement' # <<>>
    /\ latest_measurement'[1].raw_celsius # <<>>

\* the measurements of a history are in the order they were taken
InArrivalOrder(records) ==
    \A j \in 1..(Len(records) - 1) : records[j].time < records[j + 1].time

\* C15: the history never holds more than 100 measurements; a slow tick with
\* a valid measurement appends it at the end, evicting the oldest one when
\* the history is full, and no other step touches the history, so it holds
\* the most recent valid measurements in arrival order; the thermostat step
\* decides from the latest measurement, the power and the mode alone.
C15_HistoryRing ==
    [][ /\ Len(temperature_records) <= 100 /\ Len(temperature_records') <= 100
        /\ InArrivalOrder(temperature_records')
        /\ ValidSenseStep =>
              /\ temperature_records' =
                    (IF Len(temperature_records) = 100
                     THEN Tail(temperature_records)
                     ELSE temperature_records) \o <<latest_measurement'[1]>>
              /\ latest_measurement'[1].time = now
        /\ ~ValidSenseStep => UNCHANGED temperature_records
        /\ ThermostatStep =>
              _power_status' =
                 IF power_status[1] = "off"
                    /\ Calibrated < current_heating_mode.lower_limit THEN "on"
                 ELSE IF power_status[1] = "on"
                         /\ Calibrated > current_heating_mode.upper_limit THEN "off"
                 ELSE _power_status ]_vars

\* the history was full, and two valid slow ticks have each evicted the
\* oldest measurement and appended their own
C15_Witness ==
    /\ TickDone
    /\ Len(temperature_records) = 100
    /\ temperature_records[1] = PastRecords(100)[3]
    /\ temperature_records[98] = PastRecords(100)[100]
    /\ temperature_records[99].time = TEMPERATURE_POLL_FREQUENCY_SECONDS + FrameSeconds
    /\ temperature_records[100] = latest_measurement[1]
    /\ temperature_records[100].time = now

----------------------------------------------------------------------------
(* C16 *)

\* the step that reads the sensor
SensorReadStep == pc = "sense" /\ results' # <<>> /\ exit_cause' \in {"none", "SystemExit"}

\* C16: every iteration starts by polling and dispatching the buttons; the
\* sensor is read only in an iteration whose gate found more than the poll
\* interval (10 s) elapsed since the last slow tick, and once in it; the gate
\* of every slow tick, also of one whose reading is absent, resets the time
\* of the last slow tick, so a sensor read is more than one poll interval
\* after the read before it.
C16_DualCadence ==
    [][ /\ (pc = "poll" /\ pc' \in LoopPcs) => DispatchStep
        /\ pc' = "gate" => DispatchStep
        /\ pc' = "poll" => pc \in {"render", "sense"}
        /\ pc = "gate" =>
              IF now - LAST_POLL_TIME > 10
              THEN pc' = "sense" => LAST_POLL_TIME' = now
              ELSE pc' \in LoopPcs => (pc' = "render" /\ UNCHANGED LAST_POLL_TIME)
        /\ pc' = "sense" => (pc = "gate" /\ now - LAST_POLL_TIME > 10)
        /\ (pc = "gate" /\ pc' \in LoopPcs /\ now - LAST_POLL_TIME > 10)
              => pc' = "sense"
        /\ pc # "gate" => UNCHANGED LAST_POLL_TIME
        /\ SensorReadStep =>
              /\ LAST_POLL_TIME = now
              /\ pc' # "sense"
              /\ latest_measurement # <<>> => now - latest_measurement[1].time > 10
        /\ results' # results => pc = "sense"
        /\ AbsentSenseStep => LAST_POLL_TIME' = now ]_vars

\* a tick whose reading was absent has reset the time of the last slow tick:
\* the loop has polled the buttons of frames since, and reads the sensor
\* again only now, more than a poll interval later
C16_Witness ==
    /\ pc = "sense"
    /\ latest_measurement # <<>>
    /\ latest_measurement[1].raw_celsius = <<>>
    /\ LAST_POLL_TIME = now
    /\ now - latest_measurement[1].time > TEMPERATURE_POLL_FREQUENCY_SECONDS

----------------------------------------------------------------------------
(* C17 *)

\* the transport call of a slow tick
PublishStep == TelemetryStep /\ mqtt_calls' = mqtt_calls + 1

\* the history ends with the measurement of the current tick
LatestRecorded ==
    /\ temperature_records # <<>>
    /\ temperature_records[Len(temperature_records)] = latest_measurement[1]

\* C17: a slow tick with a valid measurement first appends to the history,
\* then gates and publishes the telemetry, then evaluates the thermostat.
\* The payload carries the power as it is before the thermostat of the tick
\* acts, and the thermostat evaluates the power and the mode the button
\* handlers of the same frame have left.
C17_TickOrder ==
    [][ /\ ValidSenseStep => (pc' = "publish" /\ LatestRecorded')
        /\ pc' = "publish" => ValidSenseStep
        /\ TelemetryStep =>
              /\ pc' = "thermostat"
              /\ LatestRecorded
              /\ RelayUnchanged
              /\ UNCHANGED <<_current_mode, temperature_records>>
        /\ pc' = "thermostat" => TelemetryStep
        /\ PublishStep =>
              /\ mqtt_last'[1].payload.heat_plate_power = _power_status
              /\ mqtt_last'[1].payload.corrected_temperature
                    = latest_measurement[1].calibrated_celsius
        /\ pc \in {"gate", "sense", "publish"} =>
              UNCHANGED <<_power_status, _current_mode>>
        /\ ThermostatStep =>
              /\ power_status[1] = _power_status
              /\ current_heating_mode = _current_mode
              /\ UNCHANGED <<mqtt_calls, mqtt_last, temperature_records>>
              /\ _power_status' =
                    IF _power_status = "off"
                       /\ Calibrated < _current_mode.lower_limit THEN "on"
                    ELSE IF _power_status = "on"
                            /\ Calibrated > _current_mode.upper_limit THEN "off"
                    ELSE _power_status ]_vars

\* the first frame: KEY2 has made the mode natto, the tick has recorded its
\* measurement, published it with the power on, and then the thermostat,
\* judging by the limits of natto, has turned the power off
C17_Witness ==
    /\ TickDone
    /\ now = TEMPERATURE_POLL_FREQUENCY_SECONDS + FrameSeconds
    /\ _current_mode.NAME = "natto"
    /\ Len(temperature_records) = 1
    /\ LatestRecorded
    /\ mqtt_calls = 1
    /\ mqtt_last[1].payload.heat_plate_power = "on"
    /\ Calibrated > _current_mode.upper_limit
    /\ Calibrated <= AVAILABLE_MODES[3].upper_limit
    /\ _power_status = "off"

----------------------------------------------------------------------------
(* C18 *)

\* C18: while the current mode is free, the thermostat evaluation changes
\* neither power nor relay, whatever the calibrated reading, so that in mode
\* free the power changes only in a frame that runs the KEY3 handler.
C18_FreeModeIsManual ==
    [][ /\ (ThermostatStep /\ _current_mode.NAME = "free") => RelayUnchanged
        /\ (ControllerExists /\ _current_mode.NAME = "free"
              /\ _current_mode' = _current_mode
              /\ _power_status' # _power_status) => Key3Step ]_vars

----------------------------------------------------------------------------
(* The loop left alone: no button is pressed, so the mode stays what it is  *)

\* no valid slow tick so far
NoPastTicks == {0}

InitLive == InitRunning(NoPastTicks)

LivePins == {PinsOf({})}

LiveReads ==
    {<<>>, <<[external_temperature |-> <<>>]>>}
        \cup {<<[external_temperature |-> <<r>>]>> : r \in {-100, 3900, 4300, 10100}}

NextLive == LoopNext(LivePins, LiveReads)

\* the script runs on from each statement of the loop to the next one; an
\* interrupt or an exception may or may not come
LiveSpec ==
    /\ InitLive
    /\ [][NextLive]_vars
    /\ WF_vars(PollAndDispatch(LivePins))
    /\ WF_vars(SlowGate)
    /\ WF_vars(Sense(LiveReads))
    /\ WF_vars(Telemetry)
    /\ WF_vars(Thermostat)
    /\ WF_vars(EndFrame)

----------------------------------------------------------------------------
(* C19 *)

LoopRunning == pc \in LoopPcs

\* the clock has reached the value beyond which it is not read
ClockStopped == now + FrameSeconds > MaxTime

\* the slow tick under way has read no external temperature
TickReadAbsent ==
    /\ latest_measurement[1].time = LAST_POLL_TIME
    /\ latest_measurement[1].raw_celsius = <<>>

\* the slow tick under way has read a valid temperature
TickReadValid ==
    /\ latest_measurement[1].time = LAST_POLL_TIME
    /\ latest_measurement[1].raw_celsius # <<>>

\* C19: with no button pressed and the mode fixed, while the loop keeps
\* running slow ticks keep coming, and a slow tick that starts with the power
\* off ends with the power on unless its reading is absent or not below the
\* lower limit of the mode; one that starts with the power on ends with the
\* power off unless its reading is absent or not above the upper limit: the
\* first slow tick with such a valid reading makes the transition.
C19_ThermostatResponse ==
    /\ [][ /\ UNCHANGED _current_mode
           /\ ThermostatStep =>
                 /\ (_power_status = "off" /\ Calibrated < _current_mode.lower_limit)
                       => _power_status' = "on"
                 /\ (_power_status = "on" /\ Calibrated > _current_mode.upper_limit)
                       => _power_status' = "off" ]_vars
    /\ LoopRunning ~> (pc = "sense" \/ ~LoopRunning \/ ClockStopped)
    /\ (pc = "sense" /\ _power_status = "off")
          ~> \/ _power_status = "on"
             \/ ~LoopRunning
             \/ TickReadAbsent
             \/ TickReadValid /\ Calibrated >= _current_mode.lower_limit
    /\ (pc = "sense" /\ _power_status = "on")
          ~> \/ _power_status = "off"
             \/ ~LoopRunning
             \/ TickReadAbsent
             \/ TickReadValid /\ Calibrated <= _current_mode.upper_limit

\* mode natto and the power off: the first tick read no external temperature
\* and left the power off, the second one read 39.0 and has turned it on
C19_Witness ==
    /\ TickDone
    /\ now > TEMPERATURE_POLL_FREQUENCY_SECONDS + TEMPERATURE_POLL_FREQUENCY_SECONDS
    /\ Len(temperature_records) = 1
    /\ _current_mode.NAME = "natto"
    /\ power_status = <<"off">>
    /\ Calibrated < _current_mode.lower_limit
    /\ _power_status = "on"

----------------------------------------------------------------------------
(* C20 *)

\* the power status agrees with the last call made on the relay pin
PowerMatchesRelay ==
    (LoopRunning /\ ControllerExists) =>
        /\ _power_status \in {"on", "off"}
        /\ _power_status = "on" <=> relay_call = <<"setup", "OUT">>
        /\ _power_status = "off" <=> relay_call = <<"setup", "IN">>
        /\ _power_status = "on" <=> relay_pin = "OUT"

\* C20: in every state of the running loop in which the controller exists,
\* the power is on exactly when the last call on the relay pin set it up as
\* output and off exactly when the last call released it to input; the power
\* status changes only in the step that constructs the controller, in a
\* frame that runs the KEY3 handler in mode free, and in a thermostat step,
\* and only together with the matching call on the pin.
C20_PowerRelayConsistency ==
    [][ /\ PowerMatchesRelay /\ PowerMatchesRelay'
        /\ _power_status' # _power_status =>
              /\ \/ ~ControllerExists /\ ControllerExists'
                 \/ Key3Step /\ _current_mode'.NAME = "free"
                 \/ ThermostatStep
              /\ relay_call' = <<"setup", IF _power_status' = "on" THEN "OUT" ELSE "IN">>
        /\ (LoopRunning' /\ relay_call' # relay_call) =>
              _power_status' # _power_status ]_vars

\* KEY3 in mode free in the second frame has switched the heater back on,
\* and the pin is driven as output again
C20_Witness ==
    /\ pc = "gate"
    /\ now = TEMPERATURE_POLL_FREQUENCY_SECONDS + 2 * FrameSeconds
    /\ button_states["KEY3"]
    /\ _current_mode.NAME = "free"
    /\ _power_status = "on"
    /\ relay_call = <<"setup", "OUT">>
    /\ relay_pin = "OUT"

----------------------------------------------------------------------------
(* C21 *)

\* a frame in which KEY2 and KEY3 are both read as pressed
BothKeysStep == DispatchStep /\ button_states'["KEY2"] /\ button_states'["KEY3"]

\* the configuration lists the three keys in the order KEY1, KEY2, KEY3
KeysInOrder ==
    /\ IndexOf([i \in 1..Len(BUTTON_CONFIG) |-> BUTTON_CONFIG[i].name], "KEY1")
          < IndexOf([i \in 1..Len(BUTTON_CONFIG) |-> BUTTON_CONFIG[i].name], "KEY2")
    /\ IndexOf([i \in 1..Len(BUTTON_CONFIG) |-> BUTTON_CONFIG[i].name], "KEY2")
          < IndexOf([i \in 1..Len(BUTTON_CONFIG) |-> BUTTON_CONFIG[i].name], "KEY3")

\* C21: the handlers of the buttons pressed in one frame run in the order
\* KEY1, KEY2, KEY3, each on the state the one before has left: with KEY2 and
\* KEY3 both pressed, KEY3 tests the mode KEY2 has just set, so from greek
\* yogurt (the mode before free) the frame ends in free with the power
\* toggled and the telemetry flag untouched, and from free (or natto) it ends
\* in the next mode with the flag negated and the power untouched; KEY1 in
\* the same frame moves the brightness one level on.
C21_HandlerOrder ==
    [][ /\ KeysInOrder
        /\ BothKeysStep =>
              /\ _current_mode' = NextInCatalog(ModeBefore)
              /\ IF ModeBefore = AVAILABLE_MODES[2]
                 THEN /\ _current_mode'.NAME = "free"
                      /\ _power_status' # PowerBefore
                      /\ _power_status' \in {"on", "off"}
                      /\ relay_pin' = IF _power_status' = "on" THEN "OUT" ELSE "IN"
                      /\ should_push' = should_push
                 ELSE /\ _current_mode'.NAME # "free"
                      /\ should_push' = ~should_push
                      /\ _power_status' = PowerBefore
                      /\ UNCHANGED <<relay_pin, relay_call>>
              /\ LCD_BRIGHTNESS' = IF button_states'["KEY1"]
                                   THEN NextBrightness(LCD_BRIGHTNESS)
                                   ELSE LCD_BRIGHTNESS ]_vars

\* KEY2 and KEY3 pressed together in the first frame, from mode free with the
\* power on: the mode is natto and the power is still on
C21_Witness ==
    /\ pc = "gate"
    /\ now = TEMPERATURE_POLL_FREQUENCY_SECONDS + FrameSeconds
    /\ button_states["KEY2"] /\ button_states["KEY3"]
    /\ _current_mode.NAME = "natto"
    /\ _power_status = "on"
    /\ relay_pin = "OUT"

----------------------------------------------------------------------------
(* C22 *)

\* the process has ended: after the shutdown step, or by sys.exit
ProcessEnded == pc \in {"exited", "terminated"}

\* C22: when the sensor read yields no data at all and the process
\* terminates, the shutdown step has run and the relay pin is released
\* (input): the relay is not left driven at process exit.
C22_FatalExitReleasesRelay ==
    (ProcessEnded /\ exit_cause = "SystemExit") =>
        /\ relay_call = <<"cleanup">>
        /\ relay_pin = "IN"

----------------------------------------------------------------------------
(* C23 *)

BrightnessLevels == {LCD_BRIGHTNESS_LEVELS[i] : i \in 1..Len(LCD_BRIGHTNESS_LEVELS)}

\* the end of a frame, where the duty cycle is re-applied or not
EndFrameStep == pc = "render" /\ pc' = "poll"

\* C23: the KEY1 handler moves the brightness to the next of the levels 0,
\* 10, 70, the first after the last, so the level is always one of them; and
\* the end of a frame re-applies the backlight duty cycle exactly when the
\* level differs from the duty cycle last applied, so that after the update
\* that follows a KEY1 press, frames without a KEY1 press issue none.
C23_BrightnessHandling ==
    [][ /\ BrightnessLevels = {0, 10, 70}
        /\ LCD_BRIGHTNESS \in BrightnessLevels /\ LCD_BRIGHTNESS' \in BrightnessLevels
        /\ DispatchStep =>
              LCD_BRIGHTNESS' = IF button_states'["KEY1"]
                                THEN NextBrightness(LCD_BRIGHTNESS)
                                ELSE LCD_BRIGHTNESS
        /\ LCD_BRIGHTNESS' # LCD_BRIGHTNESS => DispatchStep
        /\ EndFrameStep =>
              /\ bl_updated' <=> (backlight # LCD_BRIGHTNESS)
              /\ backlight' = LCD_BRIGHTNESS ]_vars

====
